---- MODULE Spec2Model ----
(***************************************************************************)
(* A model of react-discriminated-union-context (src/src/index.ts): the    *)
(* factory createDiscriminatedContext and the hook useDiscriminatedContext *)
(* it returns, read under a stack of React Providers, and the exported     *)
(* types, as the compiler resolves them for a given union.                 *)
(*                                                                         *)
(* JavaScript values are records [k, s, n]: k is the typeof-like kind, s   *)
(* the text of a string/boolean/symbol description, n the number or the    *)
(* heap address of an object.  Objects live in `heap`, so that identity    *)
(* (the same reference) and equality of fields are different things.       *)
(***************************************************************************)
EXTENDS Integers, Sequences, FiniteSets, TLC

VARIABLES contexts, heap, providers, popped, result, readers, typed, app

vars == <<contexts, heap, providers, popped, result, readers, typed, app>>

----------------------------------------------------------------------------
(* JavaScript values *)

Str(s) == [k |-> "string", s |-> s, n |-> 0]

Num(n) == [k |-> "number", s |-> "", n |-> n]

Bool(b) == [k |-> "boolean", s |-> IF b THEN "true" ELSE "false", n |-> 0]

Undefined == [k |-> "undefined", s |-> "", n |-> 0]

Null == [k |-> "null", s |-> "", n |-> 0]

Ref(a) == [k |-> "object", s |-> "", n |-> a]

\* Symbol(description): n tells one symbol from another of the same description
Sym(description, id) == [k |-> "symbol", s |-> description, n |-> id]

Digit(d) == CASE d = 0 -> "0" [] d = 1 -> "1" [] d = 2 -> "2" [] d = 3 -> "3"
              [] d = 4 -> "4" [] d = 5 -> "5" [] d = 6 -> "6" [] d = 7 -> "7"
              [] d = 8 -> "8" [] d = 9 -> "9"

RECURSIVE NatToString(_)
NatToString(n) == IF n < 10 THEN Digit(n)
                  ELSE NatToString(n \div 10) \o Digit(n % 10)

\* a == b: booleans become numbers, a number and a string compare as numbers
StrictEquals_loose(a, b) ==
    LET ToNumeric(v) == IF v.k = "boolean" THEN Num(IF v.s = "true" THEN 1 ELSE 0) ELSE v
        x == ToNumeric(a)
        y == ToNumeric(b)
        Rendering(v) == IF v.k = "number" /\ v.n >= 0 THEN NatToString(v.n) ELSE v.s
    IN  IF x.k = y.k THEN x = y
        ELSE IF {x.k, y.k} = {"number", "string"} THEN Rendering(x) = Rendering(y)
        ELSE {x.k, y.k} = {"undefined", "null"}

\* a === b (no NaN is modelled among the numbers)
StrictEquals(a, b) == a.k = b.k /\ a.s = b.s /\ a.n = b.n

\* String(v) as called in the template literal of the mismatch error
String(v) ==
    CASE v.k = "string" -> v.s
      [] v.k = "number" -> IF v.n < 0 THEN "-" \o NatToString(0 - v.n)
                           ELSE NatToString(v.n)
      [] v.k = "boolean" -> v.s
      [] v.k = "symbol" -> "Symbol(" \o v.s \o ")"
      [] v.k = "undefined" -> "undefined"
      [] v.k = "null" -> "null"
      [] v.k = "object" -> "[object Object]"

----------------------------------------------------------------------------
(* The unions the accessors are instantiated with (type parameters only:   *)
(* nothing of them exists at run time).  A type is the set of its          *)
(* alternatives: literal types are the literals themselves, the others are *)
(* named.  An object type maps each property to its declared type and says *)
(* whether it is declared with `?`; a union of object types is their set.  *)

TypeName(name) == [k |-> "type", s |-> name, n |-> 0]

Required(type) == [type |-> type, optional |-> FALSE]

Optional(type) == [type |-> type, optional |-> TRUE]

AuthState ==
    [key |-> "status",
     variants |->
       {[status |-> Required({Str("idle")})],
        [status |-> Required({Str("loading")}), message |-> Optional({TypeName("string")})],
        [status |-> Required({Str("authenticated")}), user |-> Required({TypeName("User")})],
        [status |-> Required({Str("error")}), error |-> Required({TypeName("string")}),
         retryable |-> Required({TypeName("boolean")})]}]

StepState ==
    [key |-> "step",
     variants |->
       {[step |-> Required({Num(1)}), name |-> Required({TypeName("string")})],
        [step |-> Required({Num(2)}), email |-> Required({TypeName("string")})],
        [step |-> Required({Num(3)}), password |-> Required({TypeName("string")})]}]

\* a union one of whose variants is tagged with the string "default"
ModeState ==
    [key |-> "status",
     variants |->
       {[status |-> Required({Str("idle")})],
        [status |-> Required({Str("default")})]}]

\* unions discriminated by a boolean and by a symbol
BooleanDiscriminant ==
    [key |-> "active",
     variants |->
       {[active |-> Required({Bool(TRUE)}), data |-> Required({TypeName("string")})],
        [active |-> Required({Bool(FALSE)}), reason |-> Required({TypeName("string")})]}]

ACTIVE == Sym("active", 1)

INACTIVE == Sym("inactive", 2)

SymbolState ==
    [key |-> "state",
     variants |->
       {[state |-> Required({ACTIVE}), data |-> Required({TypeName("string")})],
        [state |-> Required({INACTIVE})]}]

\* variants of the example application's union: two of them declare `user`
\* and `session`
ExampleAuthState ==
    [key |-> "status",
     variants |->
       {[status |-> Required({Str("idle")})],
        [status |-> Required({Str("authenticated")}), user |-> Required({TypeName("User")}),
         permissions |-> Required({TypeName("Permissions")}),
         session |-> Required({TypeName("SessionInfo")})],
        [status |-> Required({Str("refreshing")}), user |-> Required({TypeName("User")}),
         session |-> Required({TypeName("SessionInfo")})],
        [status |-> Required({Str("locked")}), reason |-> Required({TypeName("string")}),
         unlockAt |-> Required({TypeName("Date")})]}]

\* a union every variant of which declares a field beside the discriminant
TrackedState ==
    [key |-> "kind",
     variants |->
       {[kind |-> Required({Str("empty")}), id |-> Required({TypeName("string")})],
        [kind |-> Required({Str("loaded")}), id |-> Required({TypeName("string")}),
         data |-> Required({TypeName("string")})]}]

Unions == {AuthState, StepState, ModeState}

\* the unions accessor A is created with where the kinds of literal are compared
KindUnions == {StepState, BooleanDiscriminant, SymbolState}

\* the unions whose static types are asked for
TypeUnions == {AuthState, StepState, ModeState, BooleanDiscriminant, SymbolState,
               ExampleAuthState, TrackedState}

\* the unions accessor A is created with below; accessor B is a StepState one
UnionsOfA == {AuthState, ModeState}

----------------------------------------------------------------------------
(* The type-level definitions; TUnion is a set of object types *)

keyof(T) == DOMAIN T

\* T[K]: reading a property declared with `?` may yield undefined
Index(T, K) == T[K].type \cup (IF T[K].optional THEN {Undefined} ELSE {})

\* S extends T, for unions of literal and named types
Extends(S, T) == S \subseteq T

Exclude(T, U) == T \ U

\* { [K in keyof T]: T[K] } & {}: the same properties with the same modifiers
Prettify(T) == [K \in keyof(T) |-> T[K]]

\* the mapped type is applied to each member of the union; the named types of
\* the properties (string, User, Date) expand to themselves
DeepPrettify(TUnion) == {[K \in keyof(T) |-> T[K]] : T \in TUnion}

AllKeysOfUnion(TUnion) == UNION {keyof(T) : T \in TUnion}

\* keyof of the union itself, not distributed: the keys every member has
KeyofUnion(TUnion) == {K \in AllKeysOfUnion(TUnion) : \A T \in TUnion : K \in keyof(T)}

\* TUnion[K] for a key of every member
IndexUnion(TUnion, K) == UNION {Index(T, K) : T \in TUnion}

KeysForDiscriminantValue(TUnion, TDiscriminant, TValue) ==
    UNION {IF Extends(Index(T, TDiscriminant), TValue)
           THEN Exclude(keyof(T), {TDiscriminant}) ELSE {} : T \in TUnion}

\* string | number | symbol
PropertyKeyKinds == {"string", "number", "symbol"}

KeysByDiscriminantValue(TUnion, TDiscriminant) ==
    Prettify([V \in {t \in IndexUnion(TUnion, TDiscriminant) : t.k \in PropertyKeyKinds} |->
                KeysForDiscriminantValue(TUnion, TDiscriminant, {V})])

\* every tag answers for every key
DiscriminantForKey_unfiltered(TUnion, TDiscriminant, TKey) ==
    UNION {Index(T, TDiscriminant) : T \in TUnion}

DiscriminantForKey(TUnion, TDiscriminant, TKey) ==
    UNION {IF TKey \in keyof(T) THEN Index(T, TDiscriminant) ELSE {} : T \in TUnion}

DiscriminantForKeyAccess(TUnion, TDiscriminant, TKey) ==
    DiscriminantForKey(TUnion, TDiscriminant, TKey)

DiscriminantsByKey(TUnion, TDiscriminant) ==
    Prettify([K \in Exclude(AllKeysOfUnion(TUnion), {TDiscriminant}) |->
                DiscriminantForKey(TUnion, TDiscriminant, K)])

\* the properties of the other variants typed unknown
PropertyTypeFromUnion_unknown(TUnion, K) == {TypeName("unknown")}

PropertyTypeFromUnion(TUnion, K) ==
    UNION {IF K \in keyof(T) THEN Index(T, K) ELSE {} : T \in TUnion}

\* Extract<TUnion, { [K in TDiscriminant]: TValue }>
Extract(TUnion, TDiscriminant, TValue) ==
    {T \in TUnion : /\ TDiscriminant \in keyof(T)
                    /\ ~T[TDiscriminant].optional
                    /\ Extends(T[TDiscriminant].type, TValue)}

NarrowedReturnType(TUnion, TDiscriminant, TValue) ==
    DeepPrettify(Extract(TUnion, TDiscriminant, TValue))

\* T & M: a property of both is optional when both declare it so, and has the
\* alternatives both admit
Intersection(T, M) ==
    [K \in keyof(T) \cup keyof(M) |->
       IF K \in keyof(T) /\ K \in keyof(M)
       THEN [type |-> (T[K].type \cup (IF T[K].optional THEN {Undefined} ELSE {}))
                        \cap (M[K].type \cup (IF M[K].optional THEN {Undefined} ELSE {})),
             optional |-> T[K].optional /\ M[K].optional]
       ELSE IF K \in keyof(T) THEN T[K] ELSE M[K]]

\* Partial of everything but the discriminant
DefaultReturnType_partial(TUnion, TDiscriminant) ==
    LET Others == [K \in Exclude(AllKeysOfUnion(TUnion), {TDiscriminant}) |->
                     Optional(PropertyTypeFromUnion(TUnion, K))]
    IN  {[K \in keyof(T) \cup keyof(Others) |->
            IF K = TDiscriminant THEN T[K] ELSE Others[K]] : T \in TUnion}

DefaultReturnType(TUnion, TDiscriminant) ==
    LET Others == [K \in Exclude(AllKeysOfUnion(TUnion), KeyofUnion(TUnion)) |->
                     Optional(PropertyTypeFromUnion(TUnion, K))]
    IN  DeepPrettify({Intersection(T, Others) : T \in TUnion})

DiscriminantValues(union) == UNION {Index(T, union.key) : T \in union.variants}

UnionIntrospection(TUnion, TDiscriminant) ==
    Prettify([discriminant |-> TDiscriminant,
              values |-> DiscriminantValues([key |-> TDiscriminant, variants |-> TUnion]),
              keysByValue |-> KeysByDiscriminantValue(TUnion, TDiscriminant),
              valuesByKey |-> DiscriminantsByKey(TUnion, TDiscriminant)])

----------------------------------------------------------------------------
(* The values and the inputs *)


\* the values application code has constructed
AppValues ==
    << [status |-> Str("idle")],
       [status |-> Str("error"), error |-> Str("Network failure"), retryable |-> Bool(TRUE)],
       [step |-> Num(1), name |-> Str("John")] >>

\* values with a numeric, a boolean and a symbol discriminant
KindValues ==
    << [step |-> Num(2), email |-> Str("test@example.com")],
       [active |-> Bool(TRUE), data |-> Str("test")],
       [state |-> ACTIVE, data |-> Str("test")] >>

\* values of the shapes the type does not describe: an extra property, the
\* variant's own fields missing, and nested content that differs (the nested
\* object is at address NestedUser)
NestedUser == Len(AppValues) + Len(KindValues) + 5

ShapeValues ==
    << [status |-> Str("idle"), extraProp |-> Str("should be ignored")],
       [status |-> Str("error")],
       [status |-> Str("authenticated"), user |-> Ref(NestedUser)],
       [status |-> Str("authenticated"), user |-> Null],
       [id |-> Str("1"), name |-> Str("Inner User")] >>

InitialHeap == AppValues \o KindValues \o ShapeValues

Accessors == {"A", "B"}

Expecteds == {Str("default"), Str("idle"), Str("error"), Str("loading"),
              Num(1), Num(3), Undefined}

\* what a Provider may be given as its value prop
Cells == {Null, Undefined} \cup {Ref(a) : a \in 1..Len(AppValues)}

KindCells == {Ref(a) : a \in (Len(AppValues) + 1)..(Len(AppValues) + Len(KindValues))}

\* the idle and the error value as typed, and the values of other shapes
ShapeCells ==
    {Ref(1), Ref(2)} \cup
    {Ref(Len(AppValues) + Len(KindValues) + a) : a \in 1..(Len(ShapeValues) - 1)}

ShapeExpecteds == {Str("default"), Str("idle"), Str("error"), Str("authenticated")}

\* literals of each kind, among them pairs that differ in kind only ("2" and 2,
\* "true" and true, 1 and true) and two symbols of one description
KindExpecteds == {Num(2), Str("2"), Num(1), Bool(TRUE), Bool(FALSE), Str("true"),
                  ACTIVE, INACTIVE, Sym("active", 3)}

MaxDepth == 2

----------------------------------------------------------------------------
(* createDiscriminatedContext *)

DEFAULT_VALUE == Str("default")

MissingProviderMessage ==
    "useContext must be used within a Provider. Wrap your component tree with <Context.Provider>."

\* createContext<TUnion | null>(null): the cell read when no Provider encloses
createContext(defaultValue) == [defaultValue |-> defaultValue]

\* the factory as the README still documents it: the second argument becomes
\* the context's default value
createDiscriminatedContext_usesDefaultArg(union, discriminantKey, extraArg) ==
    [Ctx |-> createContext(extraArg), discriminantKey |-> discriminantKey, union |-> union]

\* the factory; a second argument, if a caller passes one, is not a parameter
createDiscriminatedContext(union, discriminantKey, extraArg) ==
    [Ctx |-> createContext(Null), discriminantKey |-> discriminantKey, union |-> union]

----------------------------------------------------------------------------
(* React: the nearest enclosing Provider of the context wins *)

ProvidersOf(c) == SelectSeq(providers, LAMBDA e : e.ctx = c)

\* the outermost Provider wins
useContext_outermost(c) ==
    IF ProvidersOf(c) = << >> THEN contexts[c].Ctx.defaultValue
    ELSE ProvidersOf(c)[1].value

\* one context shared by every accessor: the nearest Provider of any of them
useContext_shared(c) ==
    IF providers = << >> THEN contexts[c].Ctx.defaultValue
    ELSE providers[Len(providers)].value

useContext(c) ==
    IF ProvidersOf(c) = << >> THEN contexts[c].Ctx.defaultValue
    ELSE ProvidersOf(c)[Len(ProvidersOf(c))].value

----------------------------------------------------------------------------
(* useDiscriminatedContext *)

Returned(v) == [kind |-> "return", value |-> v, error |-> "", message |-> ""]

Thrown(name, msg) == [kind |-> "throw", value |-> Undefined, error |-> name, message |-> msg]

\* value[discriminantKey]: a property read, which throws on undefined
CanReadProperty(value) == value.k \notin {"undefined", "null"}

GetProperty(value, key) ==
    IF value.k = "object" /\ key \in DOMAIN heap[value.n] THEN heap[value.n][key]
    ELSE Undefined

PropertyTypeError(value, key) ==
    "Cannot read properties of " \o String(value) \o " (reading '" \o key \o "')"

\* expected and actual exchanged in the template
MismatchMessage_swapped(discriminantKey, expected, actual) ==
    "Expected " \o discriminantKey \o "=" \o String(actual) \o ", got " \o String(expected)

MismatchMessage(discriminantKey, expected, actual) ==
    "Expected " \o discriminantKey \o "=" \o String(expected) \o ", got " \o String(actual)

IsMissing(contextValue) == contextValue = Null

\* the sentinel is validated like any literal
NeedsValidation_always(expected) == TRUE

\* a call without argument is not validated (the behaviour of the earlier version)
NeedsValidation_exceptUndefined(expected) ==
    ~StrictEquals(expected, DEFAULT_VALUE) /\ ~StrictEquals(expected, Undefined)

NeedsValidation(expected) == ~StrictEquals(expected, DEFAULT_VALUE)

\* return { ...value }: a fresh object with the same fields
ReturnedValue_copy(value) ==
    IF value.k = "object"
    THEN [outcome |-> Returned(Ref(Len(heap) + 1)), heap |-> Append(heap, heap[value.n])]
    ELSE [outcome |-> Returned(value), heap |-> heap]

ReturnedValue(value) == [outcome |-> Returned(value), heap |-> heap]

Truthy(v) ==
    ~(v.k \in {"undefined", "null"} \/ v = Str("") \/ v = Num(0) \/ v = Bool(FALSE))

\* `value[discriminantKey] = expected` written for `value[discriminantKey] !== expected`
useDiscriminatedContext_assigns(c, expected) ==
    LET contextValue == useContext(c)
        discriminantKey == contexts[c].discriminantKey
        written == IF contextValue.k = "object"
                   THEN [heap EXCEPT ![contextValue.n] = (discriminantKey :> expected) @@ @]
                   ELSE heap
        Leaves(o, h) == [outcome |-> o, heap |-> h, accessor |-> contexts[c]]
    IN  IF IsMissing(contextValue)
        THEN Leaves(Thrown("Error", MissingProviderMessage), heap)
        ELSE IF ~NeedsValidation(expected)
        THEN Leaves(Returned(contextValue), heap)
        ELSE IF ~CanReadProperty(contextValue)
        THEN Leaves(Thrown("TypeError", PropertyTypeError(contextValue, discriminantKey)), heap)
        ELSE IF Truthy(expected)
        THEN Leaves(Thrown("Error", MismatchMessage(discriminantKey, expected, expected)), written)
        ELSE Leaves(Returned(contextValue), written)

\* the mismatch is reported once per accessor: a flag in the factory's closure
\* silences it afterwards
useDiscriminatedContext_throwsOnce(c, expected) ==
    LET contextValue == useContext(c)
        discriminantKey == contexts[c].discriminantKey
        Leaves(o, acc) == [outcome |-> o, heap |-> heap, accessor |-> acc]
    IN  IF IsMissing(contextValue)
        THEN Leaves(Thrown("Error", MissingProviderMessage), contexts[c])
        ELSE IF ~NeedsValidation(expected)
        THEN Leaves(Returned(contextValue), contexts[c])
        ELSE IF ~CanReadProperty(contextValue)
        THEN Leaves(Thrown("TypeError", PropertyTypeError(contextValue, discriminantKey)),
                    contexts[c])
        ELSE IF /\ ~StrictEquals(GetProperty(contextValue, discriminantKey), expected)
                /\ "reported" \notin DOMAIN contexts[c]
        THEN Leaves(Thrown("Error",
                           MismatchMessage(discriminantKey, expected,
                                           GetProperty(contextValue, discriminantKey))),
                    ("reported" :> TRUE) @@ contexts[c])
        ELSE Leaves(Returned(contextValue), contexts[c])

\* the value of the first read under a Provider is kept in the factory's closure
\* and serves every later read
useDiscriminatedContext_cached(c, expected) ==
    LET discriminantKey == contexts[c].discriminantKey
        contextValue == IF "cached" \in DOMAIN contexts[c] THEN contexts[c].cached
                        ELSE useContext(c)
        kept == IF IsMissing(contextValue) THEN contexts[c]
                ELSE ("cached" :> contextValue) @@ contexts[c]
        Leaves(o) == [outcome |-> o, heap |-> heap, accessor |-> kept]
    IN  IF IsMissing(contextValue)
        THEN Leaves(Thrown("Error", MissingProviderMessage))
        ELSE IF ~NeedsValidation(expected)
        THEN Leaves(Returned(contextValue))
        ELSE IF ~CanReadProperty(contextValue)
        THEN Leaves(Thrown("TypeError", PropertyTypeError(contextValue, discriminantKey)))
        ELSE IF ~StrictEquals(GetProperty(contextValue, discriminantKey), expected)
        THEN Leaves(Thrown("Error", MismatchMessage(discriminantKey, expected,
                                                    GetProperty(contextValue, discriminantKey))))
        ELSE Leaves(Returned(contextValue))

\* the read takes a lock kept in the factory's closure and releases it on
\* return only: a reader arriving after one that raised finds it held
useDiscriminatedContext_locks(c, expected) ==
    LET contextValue == useContext(c)
        discriminantKey == contexts[c].discriminantKey
        Releases(o) == [outcome |-> o, heap |-> heap, accessor |-> contexts[c]]
        Holds(o) == [outcome |-> o, heap |-> heap, accessor |-> ("held" :> TRUE) @@ contexts[c]]
    IN  IF "held" \in DOMAIN contexts[c]
        THEN Holds(Thrown("Error", "The context is being read"))
        ELSE IF IsMissing(contextValue)
        THEN Holds(Thrown("Error", MissingProviderMessage))
        ELSE IF ~NeedsValidation(expected)
        THEN Releases(Returned(contextValue))
        ELSE IF ~CanReadProperty(contextValue)
        THEN Holds(Thrown("TypeError", PropertyTypeError(contextValue, discriminantKey)))
        ELSE IF ~StrictEquals(GetProperty(contextValue, discriminantKey), expected)
        THEN Holds(Thrown("Error", MismatchMessage(discriminantKey, expected,
                                                   GetProperty(contextValue, discriminantKey))))
        ELSE Releases(Returned(contextValue))

\* the value is validated beyond its discriminant: each of its properties must
\* be set
useDiscriminatedContext_validatesShape(c, expected) ==
    LET contextValue == useContext(c)
        discriminantKey == contexts[c].discriminantKey
        Leaves(o) == [outcome |-> o, heap |-> heap, accessor |-> contexts[c]]
        Unset(value) == {k \in DOMAIN heap[value.n] : heap[value.n][k].k \in {"null", "undefined"}}
    IN  IF IsMissing(contextValue)
        THEN Leaves(Thrown("Error", MissingProviderMessage))
        ELSE IF ~NeedsValidation(expected)
        THEN Leaves(Returned(contextValue))
        ELSE IF ~CanReadProperty(contextValue)
        THEN Leaves(Thrown("TypeError", PropertyTypeError(contextValue, discriminantKey)))
        ELSE IF ~StrictEquals(GetProperty(contextValue, discriminantKey), expected)
        THEN Leaves(Thrown("Error", MismatchMessage(discriminantKey, expected,
                                                    GetProperty(contextValue, discriminantKey))))
        ELSE IF contextValue.k = "object" /\ Unset(contextValue) # {}
        THEN Leaves(Thrown("Error", "The context value is incomplete"))
        ELSE Leaves(Returned(contextValue))

\* the hook: its outcome, and the heap and the accessor as the call leaves them
\* (it writes to neither)
useDiscriminatedContext(c, expected) ==
    LET contextValue == useContext(c)
        discriminantKey == contexts[c].discriminantKey
        Leaves(r) == [outcome |-> r.outcome, heap |-> r.heap, accessor |-> contexts[c]]
        Throws(name, msg) == Leaves([outcome |-> Thrown(name, msg), heap |-> heap])
    IN  IF IsMissing(contextValue)
        THEN Throws("Error", MissingProviderMessage)
        ELSE IF ~NeedsValidation(expected)
        THEN Leaves(ReturnedValue(contextValue))
        ELSE IF ~CanReadProperty(contextValue)
        THEN Throws("TypeError", PropertyTypeError(contextValue, discriminantKey))
        ELSE IF ~StrictEquals(GetProperty(contextValue, discriminantKey), expected)
        THEN Throws("Error", MismatchMessage(discriminantKey, expected,
                                             GetProperty(contextValue, discriminantKey)))
        ELSE Leaves(ReturnedValue(contextValue))

----------------------------------------------------------------------------
(* The validation helpers of the unit tests; a helper returns nothing      *)
(* (NoThrow) or throws                                                     *)

NoThrow == [kind |-> "none", value |-> Undefined, error |-> "", message |-> ""]

validateContextNotNull(value) ==
    IF StrictEquals(value, Null)
    THEN Thrown("Error",
                "useContext must be used within a Provider. Wrap your component tree with <Context.Provider>.")
    ELSE NoThrow

\* the sentinel is compared like any literal
validateDiscriminant_comparesSentinel(value, discriminantKey, expected) ==
    IF ~CanReadProperty(value)
    THEN Thrown("TypeError", PropertyTypeError(value, discriminantKey))
    ELSE IF ~StrictEquals(GetProperty(value, discriminantKey), expected)
    THEN Thrown("Error", "Expected " \o discriminantKey \o "=" \o String(expected)
                         \o ", got " \o String(GetProperty(value, discriminantKey)))
    ELSE NoThrow

validateDiscriminant(value, discriminantKey, expected) ==
    IF StrictEquals(expected, Str("default")) THEN NoThrow
    ELSE IF ~CanReadProperty(value)
    THEN Thrown("TypeError", PropertyTypeError(value, discriminantKey))
    ELSE IF ~StrictEquals(GetProperty(value, discriminantKey), expected)
    THEN Thrown("Error", "Expected " \o discriminantKey \o "=" \o String(expected)
                         \o ", got " \o String(GetProperty(value, discriminantKey)))
    ELSE NoThrow

\* validateContextNotNull(value); validateDiscriminant(value, key, expected)
validateBoth(value, discriminantKey, expected) ==
    IF validateContextNotNull(value) # NoThrow THEN validateContextNotNull(value)
    ELSE validateDiscriminant(value, discriminantKey, expected)

----------------------------------------------------------------------------
(* The hook's two signatures, as a call is checked against them *)

\* the call does not compile
Rejected == [accepted |-> FALSE, type |-> {}]

Accepted(type) == [accepted |-> TRUE, type |-> type]

\* `expected` is declared optional: a call without argument takes the first
\* signature
useDiscriminatedContext_overloads_optional(union, args) ==
    IF Len(args) = 0 THEN Accepted(DefaultReturnType(union.variants, union.key))
    ELSE IF Len(args) # 1 THEN Rejected
    ELSE IF args[1] = DEFAULT_VALUE
    THEN Accepted(DefaultReturnType(union.variants, union.key))
    ELSE IF args[1] \in DiscriminantValues(union)
    THEN Accepted(NarrowedReturnType(union.variants, union.key, {args[1]}))
    ELSE Rejected

\* the first signature a call's arguments match decides its type:
\* (expected: "default"), then <TValue extends ValidValues>(expected: TValue)
useDiscriminatedContext_overloads(union, args) ==
    IF Len(args) # 1 THEN Rejected
    ELSE IF args[1] = DEFAULT_VALUE
    THEN Accepted(DefaultReturnType(union.variants, union.key))
    ELSE IF args[1] \in DiscriminantValues(union)
    THEN Accepted(NarrowedReturnType(union.variants, union.key, {args[1]}))
    ELSE Rejected

----------------------------------------------------------------------------
(* State machine *)

\* the hook has not been called
NoOutcome == [kind |-> "none", value |-> Undefined, error |-> "", message |-> ""]

\* result: the hook's last call at the current position (its arguments and its
\* outcome) and, in `before`, the outcome of the call preceding it when that
\* call had the same arguments; NoRead once the Providers in scope change
NoRead == [ctx |-> "", expected |-> Undefined, outcome |-> NoOutcome,
           before |-> NoOutcome, read |-> FALSE]

\* no Provider has been left since the last one was entered
NoEntry == [ctx |-> "", value |-> Undefined]

\* no component is mounted beside the one `result` follows
NoReaders == << >>

\* the compiler has been asked nothing
NoQuery == [query |-> "none"]

\* the example application is not running
NoApp == [running |-> FALSE]

Init ==
    /\ \E uA \in UnionsOfA, extra \in {Undefined, Ref(1)} :
          contexts = [a \in Accessors |->
                        IF a = "A" THEN createDiscriminatedContext(uA, uA.key, extra)
                        ELSE createDiscriminatedContext(StepState, StepState.key, extra)]
    /\ heap = InitialHeap
    /\ providers = << >>
    /\ popped = NoEntry
    /\ result = NoRead
    /\ readers = NoReaders
    /\ typed = NoQuery
    /\ app = NoApp

\* <Context.Provider value={v}> is entered
Provide(c, v) ==
    /\ Len(providers) < MaxDepth
    /\ providers' = Append(providers, [ctx |-> c, value |-> v])
    /\ popped' = NoEntry
    /\ result' = NoRead
    /\ UNCHANGED <<contexts, heap, readers, typed, app>>

\* the innermost Provider is left
ExitProvider ==
    /\ providers # << >>
    /\ providers' = SubSeq(providers, 1, Len(providers) - 1)
    /\ popped' = providers[Len(providers)]
    /\ result' = NoRead
    /\ UNCHANGED <<contexts, heap, readers, typed, app>>

\* a component at the current position calls the hook
Read(c, expected) ==
    /\ result' = [ctx |-> c, expected |-> expected,
                  outcome |-> useDiscriminatedContext(c, expected).outcome,
                  before |-> IF result.ctx = c /\ result.expected = expected
                             THEN result.outcome ELSE NoOutcome,
                  read |-> TRUE]
    /\ heap' = useDiscriminatedContext(c, expected).heap
    /\ contexts' = [contexts EXCEPT ![c] = useDiscriminatedContext(c, expected).accessor]
    /\ UNCHANGED <<providers, popped, readers, typed, app>>

Next ==
    \/ \E c \in Accessors, v \in Cells : Provide(c, v)
    \/ ExitProvider
    \/ \E c \in Accessors, e \in Expecteds : Read(c, e)

Spec == Init /\ [][Next]_vars

\* the component owning Provider i re-renders it with another value; the last
\* read is of the value replaced
SetValue(i, v) ==
    /\ i \in 1..Len(providers)
    /\ v # providers[i].value
    /\ providers' = [providers EXCEPT ![i].value = v]
    /\ popped' = providers[i]
    /\ result' = IF result.read THEN [result EXCEPT !.read = FALSE, !.before = NoOutcome]
                 ELSE NoRead
    /\ UNCHANGED <<contexts, heap, readers, typed, app>>

\* Providers whose values change between reads: the component nearest to the
\* reader re-renders
InitRerender ==
    /\ contexts = [a \in Accessors |->
                     IF a = "A" THEN createDiscriminatedContext(AuthState, AuthState.key, Undefined)
                     ELSE createDiscriminatedContext(StepState, StepState.key, Undefined)]
    /\ heap = InitialHeap
    /\ providers = << >>
    /\ popped = NoEntry
    /\ result = NoRead
    /\ readers = NoReaders
    /\ typed = NoQuery
    /\ app = NoApp

\* the states the application moves its Provider through, and what its
\* components expect
RerenderCells == {Null, Ref(1), Ref(2)}

RerenderExpecteds == {Str("default"), Str("idle"), Str("error")}

NextRerender ==
    \/ \E c \in Accessors, v \in RerenderCells : Provide(c, v)
    \/ \E v \in RerenderCells : SetValue(Len(providers), v)
    \/ \E c \in Accessors, e \in RerenderExpecteds : Read(c, e)

SpecRerender == InitRerender /\ [][NextRerender]_vars

\* several components under the same Providers, rendered in any order; a call
\* of the hook runs to completion, as every JavaScript call does
NumReaders == 2

Readers == 1..NumReaders

ReaderExpecteds == {Str("default"), Str("idle"), Str("error"), Num(1)}

\* the Providers the components are mounted under
ReaderScopes ==
    {<< >>} \cup {<<[ctx |-> c, value |-> v]>> : c \in Accessors, v \in Cells}

\* each component is mounted with the accessor and the literal it reads with;
\* `alone` is what its read yields when no other component has rendered
InitReaders ==
    /\ contexts = [a \in Accessors |->
                     IF a = "A" THEN createDiscriminatedContext(AuthState, AuthState.key, Undefined)
                     ELSE createDiscriminatedContext(StepState, StepState.key, Undefined)]
    /\ heap = InitialHeap
    /\ providers \in ReaderScopes
    /\ popped = NoEntry
    /\ result = NoRead
    /\ \E ctx \in [Readers -> Accessors], expected \in [Readers -> ReaderExpecteds] :
          readers = [r \in Readers |->
                       [ctx |-> ctx[r], expected |-> expected[r],
                        alone |-> useDiscriminatedContext(ctx[r], expected[r]).outcome,
                        outcome |-> NoOutcome, done |-> FALSE]]
    /\ typed = NoQuery
    /\ app = NoApp

\* component r renders: it calls the hook
ReaderReads(r) ==
    /\ ~readers[r].done
    /\ readers' = [readers EXCEPT
                     ![r].outcome = useDiscriminatedContext(readers[r].ctx, readers[r].expected).outcome,
                     ![r].done = TRUE]
    /\ heap' = useDiscriminatedContext(readers[r].ctx, readers[r].expected).heap
    /\ contexts' = [contexts EXCEPT ![readers[r].ctx] =
                       useDiscriminatedContext(readers[r].ctx, readers[r].expected).accessor]
    /\ UNCHANGED <<providers, popped, result, typed, app>>

NextReaders == \E r \in Readers : ReaderReads(r)

SpecReaders == InitReaders /\ [][NextReaders]_vars

\* what the compiler is asked about an accessor: the type of a call of its hook
\* and the exported introspection types of its union
TypeExpecteds == {Str("default"), Str("idle"), Str("loading"), Str("authenticated"),
                  Str("error"), Str("refreshing"), Str("locked"), Str("loaded"), Str("user"),
                  Num(1), Num(2), Num(4), Bool(TRUE), Bool(FALSE), ACTIVE, INACTIVE, Undefined}

TypeArguments == {<< >>} \cup {<<e>> : e \in TypeExpecteds}

TypeKeys == {"status", "user", "session", "error", "message", "name", "data", "reason", "id"}

InitTypes ==
    /\ \E uA \in TypeUnions :
          contexts = [a \in Accessors |->
                        IF a = "A" THEN createDiscriminatedContext(uA, uA.key, Undefined)
                        ELSE createDiscriminatedContext(StepState, StepState.key, Undefined)]
    /\ heap = InitialHeap
    /\ providers = << >>
    /\ popped = NoEntry
    /\ result = NoRead
    /\ readers = NoReaders
    /\ typed = NoQuery
    /\ app = NoApp

\* accessor.useContext(...args) is type-checked
TypeCheckCall(c, args) ==
    /\ typed' = [query |-> "call", ctx |-> c, args |-> args,
                 accepted |-> useDiscriminatedContext_overloads(contexts[c].union, args).accepted,
                 type |-> useDiscriminatedContext_overloads(contexts[c].union, args).type]
    /\ UNCHANGED <<contexts, heap, providers, popped, result, readers, app>>

\* UnionIntrospection<TUnion, TDiscriminant> is resolved
Introspect(c) ==
    /\ typed' = [query |-> "UnionIntrospection", ctx |-> c, args |-> << >>,
                 accepted |-> TRUE,
                 type |-> UnionIntrospection(contexts[c].union.variants, contexts[c].union.key)]
    /\ UNCHANGED <<contexts, heap, providers, popped, result, readers, app>>

\* DiscriminantForKeyAccess<TUnion, TDiscriminant, TKey> is resolved; TKey must
\* satisfy its constraint, AllKeysOfUnion<TUnion>
ResolveDiscriminantForKeyAccess(c, TKey) ==
    /\ typed' = IF TKey \in AllKeysOfUnion(contexts[c].union.variants)
                THEN [query |-> "DiscriminantForKeyAccess", ctx |-> c, args |-> <<TKey>>,
                      accepted |-> TRUE,
                      type |-> DiscriminantForKeyAccess(contexts[c].union.variants,
                                                        contexts[c].union.key, TKey)]
                ELSE [query |-> "DiscriminantForKeyAccess", ctx |-> c, args |-> <<TKey>>,
                      accepted |-> FALSE, type |-> {}]
    /\ UNCHANGED <<contexts, heap, providers, popped, result, readers, app>>

NextTypes ==
    \/ \E c \in Accessors, args \in TypeArguments : TypeCheckCall(c, args)
    \/ \E c \in Accessors : Introspect(c)
    \/ \E c \in Accessors, TKey \in TypeKeys : ResolveDiscriminantForKeyAccess(c, TKey)

SpecTypes == InitTypes /\ [][NextTypes]_vars

\* the Provider is given values of one tag and several shapes
NextShapes ==
    \/ \E c \in Accessors, v \in ShapeCells : Provide(c, v)
    \/ \E v \in ShapeCells : SetValue(Len(providers), v)
    \/ \E c \in Accessors, e \in ShapeExpecteds : Read(c, e)

SpecShapes == InitRerender /\ [][NextShapes]_vars

----------------------------------------------------------------------------
(* The example application: App holds authState, provides it, and renders  *)
(* AuthStatus always, UserProfile and ErrorDisplay under a condition.      *)
(* Time advances in ticks of TickMs; a timer is the callback to run and    *)
(* the ticks left until it is due.                                         *)

\* the states App passes to setAuthState
ExampleValues ==
    << [status |-> Str("idle")],
       [status |-> Str("loading"), message |-> Str("Checking credentials...")],
       [status |-> Str("authenticating"), provider |-> Str("github")],
       [status |-> Str("authenticated"), user |-> Str("John Doe")],
       [status |-> Str("error"), error |-> Str("Invalid credentials"),
        errorCode |-> Num(401), retryable |-> Bool(TRUE)],
       [status |-> Str("locked"), reason |-> Str("Too many failed attempts")] >>

\* the state object App creates for a status
StateOf(status) ==
    Ref(CHOOSE a \in 1..Len(ExampleValues) : ExampleValues[a].status = Str(status))

TickMs == 500

\* pending timers beyond this many are not modelled
MaxTimers == 2

Components == {"AuthStatus", "UserProfile", "ErrorDisplay"}

\* what each component calls useAuthContext with
ExpectedOf(component) ==
    CASE component = "AuthStatus" -> Str("default")
      [] component = "UserProfile" -> Str("authenticated")
      [] component = "ErrorDisplay" -> Str("error")

\* authState.status, as App reads it when it renders
authStatus == heap[providers[1].value.n].status.s

\* UserProfile is rendered whatever the status is
IsRendered_always(component, status) == TRUE

\* the conditions under which App renders a component
IsRendered(component, status) ==
    CASE component = "AuthStatus" -> TRUE
      [] component = "UserProfile" -> status = "authenticated"
      [] component = "ErrorDisplay" -> status = "error"

NotRendered == [kind |-> "none", value |-> Undefined, error |-> "", message |-> ""]

\* one render of App: each component it renders calls the hook
App ==
    [component \in Components |->
       IF IsRendered(component, authStatus)
       THEN useDiscriminatedContext("A", ExpectedOf(component)).outcome
       ELSE NotRendered]

\* the buttons Simulate Login and Simulate Error are disabled
Disabled == authStatus \in {"loading", "authenticating"}

Timer(callback, ms) == [callback |-> callback, due |-> ms \div TickMs]

\* the first callback of simulateLogin sets the state and schedules nothing
OnTimeout_noSecondTimer(callback) ==
    CASE callback = "authenticating" -> [status |-> "authenticating", then |-> << >>]
      [] callback = "authenticated" -> [status |-> "authenticated", then |-> << >>]
      [] callback = "error" -> [status |-> "error", then |-> << >>]

\* the callbacks passed to setTimeout: the state each sets and the timer it
\* schedules
OnTimeout(callback) ==
    CASE callback = "authenticating" ->
           [status |-> "authenticating", then |-> <<Timer("authenticated", 1000)>>]
      [] callback = "authenticated" -> [status |-> "authenticated", then |-> << >>]
      [] callback = "error" -> [status |-> "error", then |-> << >>]

InitApp ==
    /\ contexts = [a \in Accessors |->
                     IF a = "A"
                     THEN createDiscriminatedContext(ExampleAuthState, ExampleAuthState.key, Undefined)
                     ELSE createDiscriminatedContext(StepState, StepState.key, Undefined)]
    /\ heap = ExampleValues
    /\ providers = <<[ctx |-> "A", value |-> StateOf("idle")]>>
    /\ popped = NoEntry
    /\ result = NoRead
    /\ readers = NoReaders
    /\ typed = NoQuery
    /\ app = [running |-> TRUE, timers |-> << >>, lastEvent |-> "mount", rendered |-> App]

\* setAuthState(...) in an event handler or a timer callback, and the render
\* that follows it
setAuthState(status, timers, event) ==
    /\ providers' = <<[ctx |-> "A", value |-> StateOf(status)]>>
    /\ UNCHANGED <<contexts, heap, popped, result, readers, typed>>
    /\ app' = [running |-> TRUE, timers |-> timers, lastEvent |-> event, rendered |-> App']

simulateLogin ==
    /\ ~Disabled
    /\ Len(app.timers) < MaxTimers
    /\ setAuthState("loading", Append(app.timers, Timer("authenticating", 1500)), "simulateLogin")

simulateError ==
    /\ ~Disabled
    /\ Len(app.timers) < MaxTimers
    /\ setAuthState("loading", Append(app.timers, Timer("error", 1500)), "simulateError")

simulateLocked == setAuthState("locked", app.timers, "simulateLocked")

logout == setAuthState("idle", app.timers, "logout")

\* the timers that are due; of these the one set first runs first
DueTimers == {i \in 1..Len(app.timers) : app.timers[i].due = 0}

\* time passes while no timer is due
Tick ==
    /\ app.timers # << >>
    /\ DueTimers = {}
    /\ app' = [app EXCEPT !.timers = [i \in 1..Len(app.timers) |->
                                        [app.timers[i] EXCEPT !.due = @ - 1]]]
    /\ UNCHANGED <<contexts, heap, providers, popped, result, readers, typed>>

\* the first due timer's callback runs
Timeout ==
    /\ DueTimers # {}
    /\ LET i == CHOOSE i \in DueTimers : \A j \in DueTimers : i <= j
           others == SubSeq(app.timers, 1, i - 1) \o SubSeq(app.timers, i + 1, Len(app.timers))
       IN  setAuthState(OnTimeout(app.timers[i].callback).status,
                        others \o OnTimeout(app.timers[i].callback).then,
                        "timeout")

NextApp ==
    \/ simulateLogin
    \/ simulateError
    \/ simulateLocked
    \/ logout
    \/ Tick
    \/ Timeout

SpecApp == InitApp /\ [][NextApp]_vars

\* pending timers eventually fire: time does not stop and a due callback runs
SpecAppFair == SpecApp /\ WF_vars(Tick) /\ WF_vars(Timeout)

\* the same operations over discriminants of every kind of literal
InitKinds ==
    /\ \E uA \in KindUnions :
          contexts = [a \in Accessors |->
                        IF a = "A" THEN createDiscriminatedContext(uA, uA.key, Undefined)
                        ELSE createDiscriminatedContext(BooleanDiscriminant,
                                                        BooleanDiscriminant.key, Undefined)]
    /\ heap = InitialHeap
    /\ providers = << >>
    /\ popped = NoEntry
    /\ result = NoRead
    /\ readers = NoReaders
    /\ typed = NoQuery
    /\ app = NoApp

NextKinds ==
    \/ \E c \in Accessors, v \in KindCells : Provide(c, v)
    \/ ExitProvider
    \/ \E c \in Accessors, e \in KindExpecteds : Read(c, e)

SpecKinds == InitKinds /\ [][NextKinds]_vars

----------------------------------------------------------------------------
(* What the properties below speak of, read off the state directly *)

\* the positions of the Providers of c that enclose the reader
Enclosing(c) == {i \in 1..Len(providers) : providers[i].ctx = c}

InScope(c) == Enclosing(c) # {}

\* the value of the innermost enclosing Provider of c
Nearest(c) == providers[CHOOSE i \in Enclosing(c) : \A j \in Enclosing(c) : j <= i].value

\* the value of the outermost enclosing Provider of c
Outermost(c) == providers[CHOOSE i \in Enclosing(c) : \A j \in Enclosing(c) : i <= j].value

\* field `key` of v as application code constructed v (undefined when v has none)
Field(v, key) ==
    IF v.k = "object" /\ v.n \in 1..Len(InitialHeap) /\ key \in DOMAIN InitialHeap[v.n]
    THEN InitialHeap[v.n][key]
    ELSE Undefined

KeyOf(c) == contexts[c].discriminantKey

\* an error raised by `throw new Error(msg)`
Raised(msg) == [kind |-> "throw", value |-> Undefined, error |-> "Error", message |-> msg]

\* the read of result was validated against object v: it returned v itself, or
\* raised the mismatch error naming v's discriminant
ValidatedAgainst(v) ==
    IF result.expected = Str("default") \/ StrictEquals(Field(v, KeyOf(result.ctx)), result.expected)
    THEN result.outcome = [kind |-> "return", value |-> v, error |-> "", message |-> ""]
    ELSE result.outcome =
           Raised("Expected " \o KeyOf(result.ctx) \o "=" \o String(result.expected)
                  \o ", got " \o String(Field(v, KeyOf(result.ctx))))

----------------------------------------------------------------------------
C2_MatchReturnsSameObject ==
    (/\ result.read /\ InScope(result.ctx)
     /\ Nearest(result.ctx).k = "object"
     /\ StrictEquals(Field(Nearest(result.ctx), KeyOf(result.ctx)), result.expected)) =>
        /\ result.outcome.kind = "return"
        /\ result.outcome.value = Nearest(result.ctx)
        /\ heap[Nearest(result.ctx).n] = InitialHeap[Nearest(result.ctx).n]

\* read("error") under a Provider of the error value returned that very object
C2_Witness ==
    /\ result.read /\ result.expected = Str("error")
    /\ InScope(result.ctx) /\ Nearest(result.ctx) = Ref(2)
    /\ result.outcome.kind = "return" /\ result.outcome.value = Ref(2)

\* C3: when `expected` is neither "default" nor equal to the discriminant field
\* of the provided value v, the read raises an Error whose message is exactly
\* "Expected <key>=<String(expected)>, got <String(v[key])>".
C3_MismatchMessageExact ==
    (/\ result.read /\ InScope(result.ctx)
     /\ Nearest(result.ctx).k = "object"
     /\ result.expected # Str("default")
     /\ ~StrictEquals(Field(Nearest(result.ctx), KeyOf(result.ctx)), result.expected)) =>
        /\ result.outcome =
             Raised("Expected " \o KeyOf(result.ctx) \o "=" \o String(result.expected)
                    \o ", got " \o String(Field(Nearest(result.ctx), KeyOf(result.ctx))))
        /\ (/\ KeyOf(result.ctx) = "status" /\ result.expected = Str("loading")
            /\ Nearest(result.ctx) = Ref(2))
              => result.outcome.message = "Expected status=loading, got error"
        /\ (/\ KeyOf(result.ctx) = "step" /\ result.expected = Num(3)
            /\ Nearest(result.ctx) = Ref(3))
              => result.outcome.message = "Expected step=3, got 1"

\* the two examples of the claim: a string and a numeric discriminant
C3_Witness ==
    /\ result.read /\ InScope(result.ctx) /\ Nearest(result.ctx) = Ref(3)
    /\ result.expected = Num(3)
    /\ result.outcome = Raised("Expected step=3, got 1")

\* C4: read("default") under a Provider of v returns v unchanged and raises no
\* mismatch error, whatever v's discriminant is.
C4_DefaultBypassesValidation ==
    (/\ result.read /\ InScope(result.ctx)
     /\ Nearest(result.ctx) # Null
     /\ result.expected = Str("default")) =>
        /\ result.outcome.kind = "return"
        /\ result.outcome.value = Nearest(result.ctx)
        /\ heap = InitialHeap

\* read("default") returned a value whose discriminant is "error"
C4_Witness ==
    /\ result.read /\ result.expected = Str("default")
    /\ InScope(result.ctx) /\ Nearest(result.ctx) = Ref(2)
    /\ KeyOf(result.ctx) = "status"
    /\ result.outcome.kind = "return" /\ result.outcome.value = Ref(2)

\* the content of the cell a read of c sees: null when no Provider encloses
CellOf(c) == IF InScope(c) THEN Nearest(c) ELSE Null

\* the provided value is a member of the accessor's union
OfUnion(c, v) ==
    v.k = "object" /\ Field(v, KeyOf(c)) \in DiscriminantValues(contexts[c].union)

\* C5: whenever read(t) returns, for a discriminant literal t the union declares,
\* the returned value's discriminant field equals t.
C5_NarrowingEnforced ==
    (/\ result.read /\ InScope(result.ctx)
     /\ OfUnion(result.ctx, Nearest(result.ctx))
     /\ result.expected \in DiscriminantValues(contexts[result.ctx].union)
     /\ result.outcome.kind = "return") =>
        StrictEquals(Field(result.outcome.value, KeyOf(result.ctx)), result.expected)

\* C6: with Providers of one context nested, a read is validated against and
\* returns the inner value; once the inner Provider is left, a read sees the
\* outer value again.
C6_NearestProviderWins ==
    /\ (/\ result.read /\ Cardinality(Enclosing(result.ctx)) >= 2
        /\ Nearest(result.ctx).k = "object") => ValidatedAgainst(Nearest(result.ctx))
    /\ (/\ result.read /\ popped.ctx = result.ctx /\ InScope(result.ctx)
        /\ Nearest(result.ctx).k = "object") => ValidatedAgainst(Nearest(result.ctx))

\* the inner Provider (the idle value) was left, and read("error") returned the
\* outer Provider's error value
C6_Witness ==
    /\ result.read /\ result.ctx = "A" /\ result.expected = Str("error")
    /\ popped = [ctx |-> "A", value |-> Ref(1)]
    /\ providers = << [ctx |-> "A", value |-> Ref(2)] >>
    /\ result.outcome.kind = "return" /\ result.outcome.value = Ref(2)

\* a read inside the inner scope asked for the outer value's tag and raised
C6_WitnessInner ==
    /\ result.read /\ result.ctx = "A" /\ result.expected = Str("idle")
    /\ providers = << [ctx |-> "A", value |-> Ref(1)], [ctx |-> "A", value |-> Ref(2)] >>
    /\ result.outcome = Raised("Expected status=idle, got error")

\* C7: a read repeated with the same arguments in an unchanged scope has the
\* outcome of the read before it, hence of the first one: the same returned
\* object, or the same error with the same message.
C7_IdempotentRead ==
    (result.read /\ result.before # NoOutcome) => result.outcome = result.before

\* the same mismatching read performed twice in a row
C7_Witness ==
    /\ result.read /\ result.before # NoOutcome
    /\ result.before.kind = "throw" /\ result.outcome.kind = "throw"
    /\ InScope(result.ctx)

\* C8: a read, returning or raising, changes neither the Providers' values,
\* nor any field of any object, nor the accessor.
C8_ReadChangesNothing ==
    [][result'.read => /\ heap' = heap
                       /\ providers' = providers
                       /\ popped' = popped
                       /\ contexts' = contexts]_vars

\* a read raised the mismatch error and the provided object is as constructed
C8_Witness ==
    /\ result.read /\ InScope(result.ctx) /\ Nearest(result.ctx) = Ref(1)
    /\ result.outcome = Raised("Expected status=error, got idle")
    /\ heap = InitialHeap

\* C9: a read returns the current value, raises the missing-provider error, or
\* raises the mismatch error; with anything but null in the cell, it returns
\* or raises the mismatch error.
C9_ThreeOutcomesOnly ==
    result.read =>
        IF CellOf(result.ctx) = Null
        THEN result.outcome =
               Raised("useContext must be used within a Provider. Wrap your component tree with <Context.Provider>.")
        ELSE \/ /\ result.outcome.kind = "return"
                /\ result.outcome.value = CellOf(result.ctx)
             \/ /\ result.outcome.kind = "throw"
                /\ result.outcome.error = "Error"
                /\ result.outcome.message =
                     "Expected " \o KeyOf(result.ctx) \o "=" \o String(result.expected)
                     \o ", got " \o String(Field(CellOf(result.ctx), KeyOf(result.ctx)))

C11_StrictComparison ==
    (/\ result.read /\ InScope(result.ctx)
     /\ Nearest(result.ctx).k = "object"
     /\ result.expected # Str("default")) =>
        IF result.expected = Field(Nearest(result.ctx), KeyOf(result.ctx))
        THEN result.outcome.kind = "return" /\ result.outcome.value = Nearest(result.ctx)
        ELSE result.outcome =
               Raised("Expected " \o KeyOf(result.ctx) \o "=" \o String(result.expected)
                      \o ", got " \o String(Field(Nearest(result.ctx), KeyOf(result.ctx))))

\* the string "2" was expected where the discriminant is the number 2
C11_Witness ==
    /\ result.read /\ result.expected = Str("2")
    /\ InScope(result.ctx) /\ Nearest(result.ctx) = Ref(4)
    /\ KeyOf(result.ctx) = "step"
    /\ result.outcome = Raised("Expected step=2, got 2")

\* a symbol of the same description as the discriminant, but another symbol
C11_WitnessSymbol ==
    /\ result.read /\ result.expected = Sym("active", 3)
    /\ InScope(result.ctx) /\ Nearest(result.ctx) = Ref(6)
    /\ result.outcome = Raised("Expected state=Symbol(active), got Symbol(active)")

\* the identical symbol and the identical boolean match
C11_WitnessMatch ==
    /\ result.read /\ result.expected = ACTIVE
    /\ InScope(result.ctx) /\ Nearest(result.ctx) = Ref(6)
    /\ result.outcome.kind = "return" /\ result.outcome.value = Ref(6)

----------------------------------------------------------------------------
\* the key each accessor was created with (Init)
CreatedKey(c) == IF c = "A" THEN "status" ELSE StepState.key

\* C12: accessors are independent. A read of accessor c sees the Providers of c
\* only: with none of them in scope it raises the missing-provider error even
\* inside a Provider of the other accessor, and otherwise it is validated
\* against the value of the nearest Provider of c alone, compared and reported
\* under the key c was created with, which the accessor keeps.
C12_AccessorsIndependent ==
    /\ \A c \in Accessors : KeyOf(c) = CreatedKey(c)
    /\ (result.read /\ CellOf(result.ctx) = Null) =>
          result.outcome = Raised(MissingProviderMessage)
    /\ (result.read /\ CellOf(result.ctx).k = "object") =>
          LET v == CellOf(result.ctx)
              actual == Field(v, CreatedKey(result.ctx))
          IN  IF result.expected = Str("default") \/ actual = result.expected
              THEN result.outcome = Returned(v)
              ELSE result.outcome =
                     Raised("Expected " \o CreatedKey(result.ctx) \o "=" \o String(result.expected)
                            \o ", got " \o String(actual))

\* accessor B is read inside a Provider of accessor A only
C12_Witness ==
    /\ providers = <<[ctx |-> "A", value |-> Ref(1)]>>
    /\ result.read /\ result.ctx = "B" /\ result.expected = Num(1)
    /\ result.outcome = Raised(MissingProviderMessage)

\* accessor A is read inside a Provider of B nested in its own: B's value, which
\* has no `status`, is not what A reports
C12_WitnessNested ==
    /\ providers = <<[ctx |-> "A", value |-> Ref(2)], [ctx |-> "B", value |-> Ref(3)]>>
    /\ result.read /\ result.ctx = "A" /\ result.expected = Str("idle")
    /\ result.outcome = Raised("Expected status=idle, got error")

----------------------------------------------------------------------------
\* C13: the accessor is stateless across calls. Once the value of a Provider of
\* the accessor has changed from v1 to v2, a read is settled by the content the
\* cell has at the call, the accessor's key and `expected` alone: it raises the
\* missing-provider error when the cell holds null and is otherwise validated
\* against v2 and returns v2 itself, whatever the read of v1 returned or raised.
C13_StatelessAcrossCalls ==
    (/\ result.read
     /\ popped # NoEntry /\ popped.ctx = result.ctx) =>
        LET v2 == CellOf(result.ctx)
        IN  /\ v2 = Null => result.outcome = Raised(MissingProviderMessage)
            /\ v2.k = "object" => ValidatedAgainst(v2)

\* read("idle") returned v1, the Provider's value became v2, and the same read
\* raises the mismatch naming v2's discriminant
C13_Witness ==
    /\ providers = <<[ctx |-> "A", value |-> Ref(2)]>>
    /\ popped = [ctx |-> "A", value |-> Ref(1)]
    /\ result.read /\ result.ctx = "A" /\ result.expected = Str("idle")
    /\ result.before = Returned(Ref(1))
    /\ result.outcome = Raised("Expected status=idle, got error")

\* read("idle") raised on v1, the Provider's value became v2, and the same read
\* returns v2
C13_WitnessRecovers ==
    /\ providers = <<[ctx |-> "A", value |-> Ref(1)]>>
    /\ popped = [ctx |-> "A", value |-> Ref(2)]
    /\ result.read /\ result.ctx = "A" /\ result.expected = Str("idle")
    /\ result.before = Raised("Expected status=idle, got error")
    /\ result.outcome = Returned(Ref(1))

----------------------------------------------------------------------------
\* C14: concurrent readers never race. Whatever the readers expect and in
\* whatever order they read under the same Providers, each gets the outcome it
\* would get reading alone, and no read changes the Providers' values or the
\* objects they refer to.
C14_ReadersNeverRace ==
    /\ [](\A r \in DOMAIN readers : readers[r].done => readers[r].outcome = readers[r].alone)
    /\ [][providers' = providers /\ heap' = heap]_vars

\* two readers of one cell are done, one raised the mismatch and one was returned
\* the value
C14_Witness ==
    /\ providers = <<[ctx |-> "A", value |-> Ref(2)]>>
    /\ \A r \in DOMAIN readers : readers[r].done /\ readers[r].ctx = "A"
    /\ \E r \in DOMAIN readers : readers[r].outcome = Raised("Expected status=idle, got error")
    /\ \E r \in DOMAIN readers : readers[r].outcome = Returned(Ref(2)) /\ readers[r].expected = Str("error")

----------------------------------------------------------------------------
(* What the properties of the static types speak of *)

\* the union and the discriminant key the last query was about
TUnionOf(c) == contexts[c].union.variants

TagsOf(c) == UNION {T[KeyOf(c)].type : T \in TUnionOf(c)}

\* the variants tagged t
VariantsTagged(c, t) == {T \in TUnionOf(c) : T[KeyOf(c)].type = {t}}

\* the variants that declare field K
Declaring(c, K) == {T \in TUnionOf(c) : K \in DOMAIN T}

\* every field name of the union but the discriminant
OtherFields(c) == (UNION {DOMAIN T : T \in TUnionOf(c)}) \ {KeyOf(c)}

\* the last query was a call of the hook with the one argument t
CalledWith(t) == typed.query = "call" /\ typed.args = <<t>>

\* C15: the static type of read(t), for a tag t of the union, is exactly the
\* member(s) tagged t: every field of the matching variant with its declared
\* type and its required/optional status, and no other field.
C15_NarrowedProjection ==
    \A t \in (IF typed.query = "call" THEN TagsOf(typed.ctx) ELSE {}) :
        CalledWith(t) =>
            typed.accepted /\ typed.type = VariantsTagged(typed.ctx, t)

----------------------------------------------------------------------------
\* field K is in every member of the type R of the last query
PresentIn(R, K) == \A m \in R : K \in DOMAIN m

\* field K is marked `?` in the union type R: in one of its members
MarkedOptional(R, K) == \E m \in R : K \in DOMAIN m /\ m[K].optional

\* C16 as stated: in the static type of read("default") the discriminant is
\* always present, and every other field of any variant is present and marked
\* optional.
C16_AggregateAllOptional ==
    CalledWith(Str("default")) =>
        /\ typed.accepted
        /\ PresentIn(typed.type, KeyOf(typed.ctx))
        /\ ~MarkedOptional(typed.type, KeyOf(typed.ctx))
        /\ \A K \in OtherFields(typed.ctx) :
              PresentIn(typed.type, K) /\ MarkedOptional(typed.type, K)

\* C16, amended: in the static type of read("default") the discriminant is
\* always present, and every other field of any variant is present; it is
\* marked optional unless every variant declares it as a required field, and
\* in the member of a variant that declares it it keeps that variant's modifier.
C16_AggregateOptionality ==
    CalledWith(Str("default")) =>
        /\ typed.accepted
        /\ PresentIn(typed.type, KeyOf(typed.ctx))
        /\ ~MarkedOptional(typed.type, KeyOf(typed.ctx))
        /\ \A K \in OtherFields(typed.ctx) :
              /\ PresentIn(typed.type, K)
              /\ MarkedOptional(typed.type, K) <=>
                    ~(\A T \in TUnionOf(typed.ctx) : K \in DOMAIN T /\ ~T[K].optional)
              /\ \A T \in Declaring(typed.ctx, K) :
                    \E m \in typed.type : /\ m[KeyOf(typed.ctx)] = T[KeyOf(typed.ctx)]
                                          /\ m[K].optional = T[K].optional

\* read("default") of the union whose variants all declare `id`: `id` is
\* required and `data`, declared by one variant, is optional
C16_Witness ==
    /\ CalledWith(Str("default")) /\ typed.ctx = "A"
    /\ contexts["A"].union = TrackedState
    /\ ~MarkedOptional(typed.type, "id")
    /\ MarkedOptional(typed.type, "data")

\* read("default") of AuthState: user, error, retryable and message are optional
C16_WitnessAuthState ==
    /\ CalledWith(Str("default")) /\ typed.ctx = "A"
    /\ contexts["A"].union = AuthState
    /\ \A K \in {"user", "error", "retryable", "message"} :
          PresentIn(typed.type, K) /\ MarkedOptional(typed.type, K)

----------------------------------------------------------------------------
\* the type of `x.K` for x of the union type R
PropertyOf(R, K) == UNION {m[K].type \cup (IF m[K].optional THEN {Undefined} ELSE {}) : m \in R}

\* the type field K is declared with by variant T (undefined among its
\* alternatives when T declares it with `?`)
DeclaredType(T, K) == T[K].type \cup (IF T[K].optional THEN {Undefined} ELSE {})

----------------------------------------------------------------------------
\* the last query resolved UnionIntrospection
Introspected == typed.query = "UnionIntrospection"

\* C18: KeysByDiscriminantValue maps exactly the discriminant literals of the
\* union, of whatever kind, each to the field names of its variant without the
\* discriminant (to never, the empty set, when the variant has no other field).
C18_KeysByDiscriminantValue ==
    Introspected =>
        /\ DOMAIN typed.type.keysByValue = TagsOf(typed.ctx)
        /\ \A t \in DOMAIN typed.type.keysByValue :
              typed.type.keysByValue[t] =
                 UNION {DOMAIN T \ {KeyOf(typed.ctx)} : T \in VariantsTagged(typed.ctx, t)}

\* C19: DiscriminantForKeyAccess is exactly the set of tags of the variants
\* that declare the field, and DiscriminantsByKey maps every field name of any
\* variant other than the discriminant to that set.
C19_DiscriminantForKey ==
    /\ (typed.query = "DiscriminantForKeyAccess" /\ typed.accepted) =>
          typed.type = UNION {T[KeyOf(typed.ctx)].type : T \in Declaring(typed.ctx, typed.args[1])}
    /\ Introspected =>
          /\ DOMAIN typed.type.valuesByKey = OtherFields(typed.ctx)
          /\ \A K \in DOMAIN typed.type.valuesByKey :
                typed.type.valuesByKey[K] =
                   UNION {T[KeyOf(typed.ctx)].type : T \in Declaring(typed.ctx, K)}

\* `user` of the example application's union, declared by two variants
C19_Witness ==
    /\ typed.query = "DiscriminantForKeyAccess" /\ typed.ctx = "A"
    /\ contexts["A"].union = ExampleAuthState
    /\ typed.args = <<"user">>
    /\ typed.type = {Str("authenticated"), Str("refreshing")}

\* DiscriminantsByKey of AuthState
C19_WitnessMap ==
    /\ Introspected /\ typed.ctx = "A"
    /\ contexts["A"].union = AuthState
    /\ typed.type.valuesByKey =
          [K \in {"message", "user", "error", "retryable"} |->
             CASE K = "message" -> {Str("loading")}
               [] K = "user" -> {Str("authenticated")}
               [] OTHER -> {Str("error")}]

C20_WitnessRejected ==
    /\ CalledWith(Num(1)) /\ typed.ctx = "A"
    /\ contexts["A"].union = AuthState
    /\ ~typed.accepted

C20_WitnessAccepted ==
    /\ CalledWith(Bool(FALSE)) /\ typed.ctx = "A"
    /\ contexts["A"].union = BooleanDiscriminant
    /\ typed.accepted

----------------------------------------------------------------------------
\* C21: validation inspects only the discriminant field. When the value v1 of
\* the nearest Provider is replaced by v2 of the same discriminant value, the
\* read with the same `expected` has the same kind of outcome on both: both
\* return (each its own value), or both raise the same error with the same
\* message, whatever other fields v1 and v2 have or lack.
C21_OnlyDiscriminantInspected ==
    (/\ result.read /\ result.before # NoOutcome
     /\ popped # NoEntry /\ popped.ctx = result.ctx
     /\ popped.value.k = "object" /\ CellOf(result.ctx).k = "object"
     /\ Field(popped.value, KeyOf(result.ctx)) = Field(CellOf(result.ctx), KeyOf(result.ctx))) =>
        /\ result.outcome.kind = result.before.kind
        /\ result.outcome.error = result.before.error
        /\ result.outcome.message = result.before.message
        /\ result.outcome.kind = "return" => result.outcome.value = CellOf(result.ctx)

\* read("error") returned the error value as typed and returns the one that
\* lacks `error` and `retryable`
C21_Witness ==
    /\ result.read /\ result.ctx = "A" /\ result.expected = Str("error")
    /\ popped = [ctx |-> "A", value |-> Ref(2)]
    /\ CellOf("A").k = "object" /\ DOMAIN InitialHeap[CellOf("A").n] = {"status"}
    /\ result.before = Returned(Ref(2))
    /\ result.outcome = Returned(CellOf("A"))

\* read("idle") raised on an authenticated value and raises the same on one
\* whose nested `user` differs
C21_WitnessNested ==
    /\ result.read /\ result.ctx = "A" /\ result.expected = Str("idle")
    /\ popped.ctx = "A" /\ Field(popped.value, "user") = Ref(NestedUser)
    /\ Field(CellOf("A"), "user") = Null
    /\ result.before = Raised("Expected status=idle, got authenticated")
    /\ result.outcome = result.before

----------------------------------------------------------------------------
\* C22: a read raises the missing-provider error if and only if no Provider of
\* the accessor's context encloses the reader; inside a Provider, whatever its
\* value, the read never raises it.
C22_MissingIffNoProvider ==
    result.read =>
        (result.outcome = Raised(MissingProviderMessage) <=> ~InScope(result.ctx))

----------------------------------------------------------------------------
\* C23: the tests' helpers mirror the hook. Applied to the content of the cell
\* the read saw, the accessor's key and the same `expected`,
\* validateContextNotNull followed by validateDiscriminant throws if and only
\* if the hook threw, and then the same error with the same message.
C23_HelpersMirrorHook ==
    result.read =>
        LET helpers == validateBoth(CellOf(result.ctx), KeyOf(result.ctx), result.expected)
        IN  /\ helpers.kind = "throw" <=> result.outcome.kind = "throw"
            /\ helpers.kind = "throw" =>
                  /\ helpers.error = result.outcome.error
                  /\ helpers.message = result.outcome.message

\* the hook and the helpers both raise the mismatch of "loading" against idle
C23_Witness ==
    /\ result.read /\ result.ctx = "A" /\ result.expected = Str("loading")
    /\ CellOf("A") = Ref(1)
    /\ result.outcome = Raised("Expected status=loading, got idle")
    /\ validateBoth(CellOf("A"), "status", Str("loading")) = result.outcome

\* neither throws for "default" on the error value
C23_WitnessDefault ==
    /\ result.read /\ result.ctx = "A" /\ result.expected = Str("default")
    /\ CellOf("A") = Ref(2)
    /\ result.outcome.kind = "return"
    /\ validateBoth(CellOf("A"), "status", Str("default")) = NoThrow

----------------------------------------------------------------------------
\* C24: in UnionIntrospection keysByValue and valuesByKey are inverse
\* relations: for every discriminant literal v and every other field k of the
\* union, k is among keysByValue[v] if and only if v is among valuesByKey[k];
\* and values is the set of all discriminant literals.
C24_IntrospectionInverse ==
    Introspected =>
        /\ typed.type.values = TagsOf(typed.ctx)
        /\ \A v \in TagsOf(typed.ctx), k \in OtherFields(typed.ctx) :
              (v \in DOMAIN typed.type.keysByValue /\ k \in typed.type.keysByValue[v])
              <=> (k \in DOMAIN typed.type.valuesByKey /\ v \in typed.type.valuesByKey[k])

----------------------------------------------------------------------------
\* C25: in every state of the example app no rendered component's read
\* raises: AuthStatus is always rendered and is returned the state, UserProfile
\* is rendered only while the provided status is authenticated and
\* ErrorDisplay only while it is error.
C25_NoRenderedReadRaises ==
    app.running =>
        /\ \A component \in Components : app.rendered[component].kind # "throw"
        /\ app.rendered["AuthStatus"] = Returned(providers[1].value)
        /\ app.rendered["UserProfile"] # NotRendered => authStatus = "authenticated"
        /\ app.rendered["ErrorDisplay"] # NotRendered => authStatus = "error"

\* a timer has set the state to authenticated and UserProfile is returned it
C25_Witness ==
    /\ app.running /\ app.lastEvent = "timeout"
    /\ authStatus = "authenticated"
    /\ app.rendered["UserProfile"] = Returned(StateOf("authenticated"))
    /\ app.rendered["ErrorDisplay"] = NotRendered

\* a timer has set the state to error and ErrorDisplay is returned it
C25_WitnessError ==
    /\ app.running /\ app.lastEvent = "timeout"
    /\ authStatus = "error"
    /\ app.rendered["ErrorDisplay"] = Returned(StateOf("error"))
    /\ app.rendered["UserProfile"] = NotRendered

----------------------------------------------------------------------------
\* C26: in the example app, pending timers eventually firing, a click on
\* Simulate Login is eventually followed by the state authenticating and by
\* the state authenticated being provided, and a click on Simulate Error by
\* the state error being provided.
C26_FlowsComplete ==
    /\ (app.running /\ app.lastEvent = "simulateLogin") ~> (authStatus = "authenticating")
    /\ (app.running /\ app.lastEvent = "simulateLogin") ~> (authStatus = "authenticated")
    /\ (app.running /\ app.lastEvent = "simulateError") ~> (authStatus = "error")

\* the last timer of a login has fired: authenticated is provided and nothing
\* is pending
C26_Witness ==
    /\ app.running /\ app.lastEvent = "timeout" /\ app.timers = << >>
    /\ providers = <<[ctx |-> "A", value |-> StateOf("authenticated")]>>

\* the timer of Simulate Error has fired
C26_WitnessError ==
    /\ app.running /\ app.lastEvent = "timeout" /\ app.timers = << >>
    /\ providers = <<[ctx |-> "A", value |-> StateOf("error")]>>

----------------------------------------------------------------------------
\* C27: in the example app, a click on Reset provides the state idle, and
\* from then until the next click no callback of a timer changes the provided
\* state: the step that follows a Reset and is a timeout leaves it idle.
C27_ResetStaysIdle ==
    [][(app.running /\ app.lastEvent = "logout")
          => /\ authStatus = "idle"
             /\ app'.lastEvent = "timeout" => authStatus' = "idle"]_vars

\* Reset was clicked while the timer of a flow was pending
C27_ResetWithPendingTimer ==
    app.running /\ app.lastEvent = "logout" /\ app.timers # << >>

----------------------------------------------------------------------------
\* C28: in the example app at most one simulated flow is in flight: a step
\* that schedules the timer of a new flow is taken only when no timer is
\* pending.
C28_OneFlowInFlight ==
    [][(app.running /\ app'.lastEvent \in {"simulateLogin", "simulateError"}
                    /\ Len(app'.timers) > Len(app.timers))
          => app.timers = << >>]_vars

\* the timers of two flows are pending together
C28_TwoFlowsInFlight ==
    app.running /\ Len(app.timers) = 2

====
